---- MODULE Spec2Model ----
(***************************************************************************)
(* Model of src/src/processor.py: the Despacho log processor.              *)
(*                                                                         *)
(* main reads the log lines, parse_records turns them into dated records   *)
(* (detecting day rollover from backward clock steps), export_to_excel     *)
(* lays the records out in side-by-side tables of max_per_table rows.      *)
(*                                                                         *)
(* A run starts once main has parsed its arguments and read the lines;     *)
(* argparse and the reading of the file or of STDIN are not modelled.      *)
(*                                                                         *)
(* Text is modelled as a sequence of characters, each character a string   *)
(* of length one.  The en dash (U+2013) of LOG_PATTERN is written          *)
(* "ENDASH".  Whitespace is the space and the tab.                         *)
(***************************************************************************)
EXTENDS Integers, Sequences, FiniteSets, TLC

VARIABLES
    lines,          \* main: the lines read from --input or STDIN
    shift_date,     \* main: args.shift_date
    max_per_table,  \* main: args.max_per_table
    pc,             \* position of the run: "parse", "export", "done", "failed"
    line_number,    \* parse_records: number of the next line of enumerate(lines, start=1)
    records,        \* parse_records: the list being built
    current_date,   \* parse_records: the running date
    previous_clock, \* parse_records: clock of the last accepted line, or None
    error,          \* the exception that ended the run, if any
    main_records,   \* main: the name `records`, bound when parse_records returns
    sheet,          \* export_to_excel: the tables written to the worksheet
    saved           \* export_to_excel: workbook.save(output_path) has run

vars == <<lines, shift_date, max_per_table, pc, line_number, records,
          current_date, previous_clock, error, main_records, sheet, saved>>

---------------------------------------------------------------------------
(* Characters and strings                                                  *)

DigitChars == <<"0", "1", "2", "3", "4", "5", "6", "7", "8", "9">>

UpperChars == <<"A", "B", "C", "D", "E", "F", "G", "H", "I", "J", "K", "L", "M",
                "N", "O", "P", "Q", "R", "S", "T", "U", "V", "W", "X", "Y", "Z">>

LowerChars == <<"a", "b", "c", "d", "e", "f", "g", "h", "i", "j", "k", "l", "m",
                "n", "o", "p", "q", "r", "s", "t", "u", "v", "w", "x", "y", "z">>

SpaceChars == {" ", "\t"}

DashChars == {"-", "ENDASH"}

DigitSet == {DigitChars[k] : k \in 1..10}

UpperSet == {UpperChars[k] : k \in 1..26}

IsDigit(c) == c \in DigitSet

IsUpper(c) == c \in UpperSet

IsSpace(c) == c \in SpaceChars

DigitValue(c) == (CHOOSE k \in 1..10 : DigitChars[k] = c) - 1

\* s[p], or "" past either end
CharAt(s, p) == IF p >= 1 /\ p <= Len(s) THEN s[p] ELSE ""

\* str.lower on one character
LowerChar(c) == IF IsUpper(c) THEN LowerChars[CHOOSE k \in 1..26 : UpperChars[k] = c] ELSE c

\* str.lower
Lower(s) == [k \in 1..Len(s) |-> LowerChar(s[k])]

\* the last position at or before p that holds no whitespace, or 0
RECURSIVE SkipSpaceBack(_, _)
SkipSpaceBack(s, p) == IF p >= 1 /\ s[p] \in SpaceChars THEN SkipSpaceBack(s, p - 1) ELSE p

\* the first position at or after p that holds no whitespace, or Len(s) + 1
RECURSIVE SkipSpaceForward(_, _)
SkipSpaceForward(s, p) == IF p <= Len(s) /\ s[p] \in SpaceChars THEN SkipSpaceForward(s, p + 1) ELSE p

\* str.strip: both ends lose their whitespace
Strip(s) == SubSeq(s, SkipSpaceForward(s, 1), SkipSpaceBack(s, Len(s)))

\* str.replace(old, new) for single characters
Replace(s, old, new) == [k \in 1..Len(s) |-> IF s[k] = old THEN new ELSE s[k]]

\* int(text) for a string of decimal digits
RECURSIVE ToInt(_)
ToInt(digits) ==
    IF Len(digits) = 0 THEN 0
    ELSE 10 * ToInt(SubSeq(digits, 1, Len(digits) - 1)) + DigitValue(digits[Len(digits)])

\* n in decimal, zero-padded to width digits (%02d, %04d)
RECURSIVE Pad(_, _)
Pad(n, width) ==
    IF width = 0 THEN <<>>
    ELSE Append(Pad(n \div 10, width - 1), DigitChars[(n % 10) + 1])

---------------------------------------------------------------------------
(* LOG_PATTERN, matched left to right.  A position is the index of the     *)
(* next character to read; position 0 means the match has failed.          *)

PhraseOpening == <<"A", "b", "e", "r", "t", "u", "r", "a", " ", "d", "a", " ",
                   "t", "e", "l", "a", " ", "d", "e", " ",
                   "D", "e", "s", "p", "a", "c", "h", "o">>

PhraseExceeded == <<"E", "X", "C", "E", "D", "I", "D", "O", " ", "E", "M", ":">>

\* \s* (greedy)
RECURSIVE SkipSpace(_, _)
SkipSpace(s, p) == IF p # 0 /\ IsSpace(CharAt(s, p)) THEN SkipSpace(s, p + 1) ELSE p

\* \d* (greedy)
RECURSIVE SkipDigits(_, _)
SkipDigits(s, p) == IF p # 0 /\ IsDigit(CharAt(s, p)) THEN SkipDigits(s, p + 1) ELSE p

\* one character of the class
ExpectIn(s, p, class) == IF p # 0 /\ CharAt(s, p) \in class THEN p + 1 ELSE 0

ExpectDigit(s, p) == IF p # 0 /\ IsDigit(CharAt(s, p)) THEN p + 1 ELSE 0

ExpectUpper(s, p) == IF p # 0 /\ IsUpper(CharAt(s, p)) THEN p + 1 ELSE 0

\* a literal
ExpectText(s, p, text) ==
    IF p # 0 /\ p + Len(text) - 1 <= Len(s) /\ SubSeq(s, p, p + Len(text) - 1) = text
    THEN p + Len(text) ELSE 0

\* an optional character: taken when present
OptionalChar(s, p, c) == IF p # 0 /\ CharAt(s, p) = c THEN p + 1 ELSE p

\* \s*[-ENDASH]\s*
ExpectDash(s, p) == SkipSpace(s, ExpectIn(s, SkipSpace(s, p), DashChars))

\* CLOCK_PATTERN  \d{2}(?::|h)\d{2}h?  from position p
ClockPattern(s, p) ==
    OptionalChar(s,
        ExpectDigit(s, ExpectDigit(s,
            ExpectIn(s, ExpectDigit(s, ExpectDigit(s, p)), {":", "h"}))),
        "h")

NoMatch == [matched |-> FALSE, clock |-> <<>>, company |-> <<>>, percent |-> <<>>]

\* LOG_PATTERN.match(line): the groups clock, company and percent, or no match
MatchLog(line) ==
    LET clockEnd    == ClockPattern(line, 1)
        companyAt   == ExpectDash(line, ExpectText(line, ExpectDash(line, clockEnd), PhraseOpening))
        companyEnd  == ExpectUpper(line, ExpectUpper(line, ExpectUpper(line, companyAt)))
        percentAt   == SkipSpace(line, ExpectText(line, ExpectDash(line, companyEnd), PhraseExceeded))
        percentEnd  == SkipDigits(line, ExpectDigit(line, percentAt))
        finish      == SkipSpace(line, ExpectIn(line, SkipSpace(line, percentEnd), {"%"}))
    IN  IF finish = Len(line) + 1
        THEN [matched |-> TRUE,
              clock   |-> SubSeq(line, 1, clockEnd - 1),
              company |-> SubSeq(line, companyAt, companyEnd - 1),
              percent |-> SubSeq(line, percentAt, percentEnd - 1)]
        ELSE NoMatch

\* re.fullmatch(r"\d{2}:\d{2}", text)
IsClockShape(text) ==
    /\ Len(text) = 5
    /\ IsDigit(text[1]) /\ IsDigit(text[2])
    /\ text[3] = ":"
    /\ IsDigit(text[4]) /\ IsDigit(text[5])

\* the trailing "h" left in place
NormalizeClockKeepsTrailing(clock) ==
    LET normalized == Replace(Lower(Strip(clock)), "h", ":")
    IN  [ok |-> IsClockShape(normalized), value |-> normalized]

\* _normalize_clock: the normalized text, or ok = FALSE where it raises ParseError
NormalizeClock(clock) ==
    LET lowered  == Lower(Strip(clock))
        stripped == IF Len(lowered) > 0 /\ lowered[Len(lowered)] = "h"
                    THEN SubSeq(lowered, 1, Len(lowered) - 1)
                    ELSE lowered
        normalized == Replace(stripped, "h", ":")
    IN  [ok |-> IsClockShape(normalized), value |-> normalized]

\* no range check on the hour and the minute
StrptimeLenient(text) ==
    [ok |-> TRUE, hour |-> ToInt(SubSeq(text, 1, 2)), minute |-> ToInt(SubSeq(text, 4, 5))]

\* the minute left out of the time
StrptimeDropsMinute(text) ==
    LET hour   == ToInt(SubSeq(text, 1, 2))
        minute == ToInt(SubSeq(text, 4, 5))
    IN  [ok |-> hour <= 23 /\ minute <= 59, hour |-> hour, minute |-> 0]

\* datetime.strptime(text, "%H:%M").time() for a text of the shape dd:dd:
\* ok = FALSE where strptime raises ValueError (hour above 23, minute above 59)
Strptime(text) ==
    LET hour   == ToInt(SubSeq(text, 1, 2))
        minute == ToInt(SubSeq(text, 4, 5))
    IN  [ok |-> hour <= 23 /\ minute <= 59, hour |-> hour, minute |-> minute]

---------------------------------------------------------------------------
(* Dates and timestamps (datetime.date, datetime.time, datetime.datetime)  *)

MkDate(y, m, d) == [year |-> y, month |-> m, day |-> d]

IsLeap(y) == (y % 4 = 0 /\ y % 100 # 0) \/ y % 400 = 0

DaysInMonth(y, m) ==
    IF m = 2 THEN (IF IsLeap(y) THEN 29 ELSE 28)
    ELSE IF m \in {4, 6, 9, 11} THEN 30 ELSE 31

\* date + timedelta(days=1)
NextDay(dt) ==
    IF dt.day < DaysInMonth(dt.year, dt.month)
    THEN MkDate(dt.year, dt.month, dt.day + 1)
    ELSE IF dt.month < 12 THEN MkDate(dt.year, dt.month + 1, 1)
    ELSE MkDate(dt.year + 1, 1, 1)

\* time < time, at minute granularity
ClockLess(a, b) == a.hour < b.hour \/ (a.hour = b.hour /\ a.minute < b.minute)

\* datetime.combine(date, time)
Combine(dt, clock) == [date |-> dt, hour |-> clock.hour, minute |-> clock.minute]

\* the hour wrapped at 24 with the date left alone
AddHoursNoCarry(ts, n) ==
    [date |-> ts.date, hour |-> (ts.hour + n) % 24, minute |-> ts.minute]

\* datetime + timedelta(hours=n), for a sum that lands on the same or the next day
AddHours(ts, n) ==
    LET total == ts.hour + n
    IN  IF total < 24
        THEN [date |-> ts.date, hour |-> total, minute |-> ts.minute]
        ELSE [date |-> NextDay(ts.date), hour |-> total - 24, minute |-> ts.minute]

\* datetime.strftime("%Y-%m-%dT%H:%MZ"), for a four-digit year
Strftime(ts) ==
    Pad(ts.date.year, 4) \o <<"-">> \o Pad(ts.date.month, 2) \o <<"-">> \o
    Pad(ts.date.day, 2) \o <<"T">> \o Pad(ts.hour, 2) \o <<":">> \o
    Pad(ts.minute, 2) \o <<"Z">>

OffsetHours == 3

\* DispatchRecord(timestamp, company, exceeded_percent)
DispatchRecord(timestamp, company, percent) ==
    [timestamp |-> timestamp, company |-> company, exceeded_percent |-> percent]

\* DispatchRecord.adjusted_iso
AdjustedIso(record) == Strftime(AddHours(record.timestamp, OffsetHours))

---------------------------------------------------------------------------
(* The inputs of a run.  A line is written from a description of what the  *)
(* operator typed: an event line in the documented format                  *)
(*   <HH:MM> - Abertura da tela de Despacho - <EMP> - EXCEDIDO EM: <XX>%   *)
(* with its spelling choices, or any other text.                           *)

NoSpace == <<>>

OneSpace == <<" ">>

Event(hh, sep, mm, trail, dash, gap, lead, company, pct) ==
    [kind |-> "event", hh |-> hh, sep |-> sep, mm |-> mm, trail |-> trail,
     dash |-> dash, gap |-> gap, lead |-> lead, company |-> company, pct |-> pct,
     text |-> <<>>]

Raw(text) ==
    [kind |-> "raw", hh |-> <<>>, sep |-> "", mm |-> <<>>, trail |-> FALSE,
     dash |-> "", gap |-> <<>>, lead |-> <<>>, company |-> <<>>, pct |-> <<>>,
     text |-> text]

\* the clock as typed
ClockText(d) == d.hh \o <<d.sep>> \o d.mm \o (IF d.trail THEN <<"h">> ELSE <<>>)

\* the line as typed
Render(d) ==
    IF d.kind = "raw" THEN d.text
    ELSE d.lead \o ClockText(d) \o d.gap \o <<d.dash>> \o d.gap \o PhraseOpening \o
         d.gap \o <<d.dash>> \o d.gap \o d.company \o d.gap \o <<d.dash>> \o d.gap \o
         PhraseExceeded \o d.gap \o d.pct \o d.gap \o <<"%">> \o d.lead

ABC == <<"A", "B", "C">>

XYZ == <<"X", "Y", "Z">>

\* Lines for the runs over several lines: clocks that step back, tie and
\* step forward, both dashes, every clock spelling, blank lines, a line
\* outside the format and a clock no day has.
SeqPool ==
    { Event(<<"2", "3">>, ":", <<"5", "0">>, FALSE, "-", OneSpace, NoSpace, ABC, <<"1", "0">>),
      Event(<<"0", "0">>, "h", <<"1", "0">>, FALSE, "ENDASH", OneSpace, NoSpace, XYZ, <<"7">>),
      Event(<<"1", "0">>, ":", <<"0", "0">>, FALSE, "-", NoSpace, NoSpace, ABC, <<"1", "0">>),
      Event(<<"1", "0">>, "h", <<"0", "0">>, TRUE, "ENDASH", OneSpace, OneSpace, ABC, <<"0", "1", "0">>),
      Event(<<"1", "0">>, ":", <<"3", "0">>, TRUE, "-", OneSpace, NoSpace, ABC, <<"1", "0">>),
      Event(<<"2", "5">>, ":", <<"0", "0">>, FALSE, "-", OneSpace, NoSpace, ABC, <<"1", "0">>),
      Raw(<<" ", "\t">>),
      Raw(<<"D", "e", "s", "p", "a", "c", "h", "o", " ", "i", "n", "i", "c", "i", "a", "d", "o">>) }

Hours == {<<"0", "0">>, <<"0", "8">>, <<"2", "0">>, <<"2", "1">>, <<"2", "3">>, <<"2", "4">>, <<"2", "5">>}

Minutes == {<<"0", "0">>, <<"5", "0">>, <<"6", "0">>}

Percents == {<<"0">>, <<"7">>, <<"0", "0", "7">>}

\* Lines just outside the format
NearMisses ==
    { Raw(Render(Event(<<"0", "8">>, "H", <<"3", "0">>, FALSE, "-", OneSpace, NoSpace, ABC, <<"1", "0">>))),
      Raw(Render(Event(<<"0", "8">>, ":", <<"3", "0">>, FALSE, "-", OneSpace, NoSpace, <<"a", "b", "c">>, <<"1", "0">>))),
      Raw(Render(Event(<<"8">>, ":", <<"3", "0">>, FALSE, "-", OneSpace, NoSpace, ABC, <<"1", "0">>))),
      Raw(Render(Event(<<"0", "8">>, ":", <<"3", "0">>, FALSE, "-", OneSpace, NoSpace, ABC, <<>>))),
      Raw(Render(Event(<<"0", "8">>, ":", <<"3", "0">>, FALSE, "-", OneSpace, NoSpace, <<"A", "B">>, <<"1", "0">>))),
      Raw(Render(Event(<<"0", "8">>, ":", <<"3", "0">>, FALSE, "_", OneSpace, NoSpace, ABC, <<"1", "0">>))),
      Raw(Render(Event(<<"0", "8">>, ":", <<"3", "0">>, TRUE, "-", OneSpace, NoSpace, ABC, <<"1", "0">>)) \o <<"x">>),
      Raw(<<"0", "8", ":", "3", "0", " ", "h">> \o
          Render(Event(<<>>, "", <<>>, FALSE, "-", OneSpace, NoSpace, ABC, <<"1", "0">>))),
      Raw(<<>>),
      Raw(<<"\t">>) }

\* Lines for the runs over one line: every spelling of the format
LinePool ==
    { Event(hh, sepTrail[1], mm, sepTrail[2], dash, gap, NoSpace, ABC, pct) :
        hh \in Hours, mm \in Minutes, sepTrail \in {":", "h"} \X BOOLEAN,
        dash \in DashChars, gap \in {NoSpace, OneSpace}, pct \in Percents }
    \cup NearMisses

\* Lines for the runs that fill several tables
BlockPool ==
    { Event(<<"1", "0">>, ":", <<"0", "0">>, FALSE, "-", OneSpace, NoSpace, ABC, <<"1", "0">>),
      Event(<<"2", "1">>, "h", <<"5", "9">>, FALSE, "-", OneSpace, NoSpace, XYZ, <<"7">>) }

\* the text of every line of the pools
TextOf == [d \in SeqPool \cup LinePool \cup BlockPool |-> Render(d)]

MaxLines == 3

MaxRows == 6

MaxBlock == 3

DefaultMaxPerTable == 256

SeqDates == {MkDate(2023, 12, 31), MkDate(2024, 2, 28)}

LineDates == {MkDate(2024, 1, 1), MkDate(2023, 12, 31), MkDate(2023, 2, 28),
              MkDate(2024, 2, 29), MkDate(2024, 4, 30)}

\* all sequences over S of length at most n
SeqsUpTo(S, n) == UNION {[1..k -> S] : k \in 0..n}

\* what main can be started on: the lines, --data and --max-per-table
Inputs ==
    ({[descs |-> ds, date |-> d, block |-> DefaultMaxPerTable] :
        ds \in SeqsUpTo(SeqPool, MaxLines), d \in SeqDates})
    \cup
    ({[descs |-> <<l>>, date |-> d, block |-> DefaultMaxPerTable] :
        l \in LinePool, d \in LineDates})
    \cup
    ({[descs |-> ds, date |-> MkDate(2024, 1, 1), block |-> b] :
        ds \in SeqsUpTo(BlockPool, MaxRows), b \in (-1)..MaxBlock})

---------------------------------------------------------------------------
(* The run                                                                 *)

NoError == [type |-> "none", origin |-> "none", reason |-> "none",
            line_number |-> 0, text |-> <<>>]

NoClock == [set |-> FALSE, hour |-> 0, minute |-> 0]

Unbound == [bound |-> FALSE, value |-> <<>>]

Init ==
    \E input \in Inputs :
        /\ lines = [k \in 1..Len(input.descs) |-> TextOf[input.descs[k]]]
        /\ shift_date = input.date
        /\ max_per_table = input.block
        /\ pc = "parse"
        /\ line_number = 1
        /\ records = <<>>
        /\ current_date = input.date
        /\ previous_clock = NoClock
        /\ error = NoError
        /\ main_records = Unbound
        /\ sheet = <<>>
        /\ saved = FALSE

\* the loop of parse_records has a line left
InLoop == pc = "parse" /\ line_number <= Len(lines)

raw_line == lines[line_number]

line == Strip(raw_line)

match == MatchLog(line)

\* the comparison taken as "not later": a tie rolls over too
RolloverOnTie(previous, clock_time) == previous.set /\ ~ClockLess(previous, clock_time)

\* the comparison reversed: a forward step rolls over, a backward step does not
RolloverOnForward(previous, clock_time) == previous.set /\ ClockLess(previous, clock_time)

\* `previous_clock and clock_time < previous_clock`
Rollover(previous, clock_time) == previous.set /\ ClockLess(clock_time, previous)

\* `if not line: continue`
SkipBlankLine ==
    /\ InLoop
    /\ line = <<>>
    /\ line_number' = line_number + 1
    /\ UNCHANGED <<lines, shift_date, max_per_table, pc, records, current_date,
                   previous_clock, error, main_records, sheet, saved>>

\* a line outside the format skipped instead of refused
RaiseNoMatchSkips ==
    /\ InLoop
    /\ line # <<>>
    /\ ~match.matched
    /\ line_number' = line_number + 1
    /\ UNCHANGED <<lines, shift_date, max_per_table, pc, records, current_date,
                   previous_clock, error, main_records, sheet, saved>>

\* the line counted from 0, as enumerate(lines) without start=1 would
RaiseNoMatchZeroBased ==
    /\ InLoop
    /\ line # <<>>
    /\ ~match.matched
    /\ pc' = "failed"
    /\ error' = [type |-> "ParseError", origin |-> "parse_records", reason |-> "no match",
                 line_number |-> line_number - 1, text |-> raw_line]
    /\ UNCHANGED <<lines, shift_date, max_per_table, line_number, records, current_date,
                   previous_clock, main_records, sheet, saved>>

\* `if not match: raise ParseError(f"Linha {line_number} ...: {raw_line!r}")`
RaiseNoMatch ==
    /\ InLoop
    /\ line # <<>>
    /\ ~match.matched
    /\ pc' = "failed"
    /\ error' = [type |-> "ParseError", origin |-> "parse_records", reason |-> "no match",
                 line_number |-> line_number, text |-> raw_line]
    /\ UNCHANGED <<lines, shift_date, max_per_table, line_number, records, current_date,
                   previous_clock, main_records, sheet, saved>>

\* the clock of a matched line is refused: _normalize_clock raises ParseError
\* with the clock, or strptime raises ValueError
RaiseBadClock ==
    /\ InLoop
    /\ line # <<>>
    /\ match.matched
    /\ LET normalized_clock == NormalizeClock(match.clock)
       IN  /\ ~normalized_clock.ok \/ ~Strptime(normalized_clock.value).ok
           /\ error' = IF ~normalized_clock.ok
                       THEN [type |-> "ParseError", origin |-> "_normalize_clock",
                             reason |-> "invalid clock", line_number |-> 0,
                             text |-> match.clock]
                       ELSE [type |-> "ValueError", origin |-> "strptime",
                             reason |-> "strptime", line_number |-> 0,
                             text |-> normalized_clock.value]
    /\ pc' = "failed"
    /\ UNCHANGED <<lines, shift_date, max_per_table, line_number, records, current_date,
                   previous_clock, main_records, sheet, saved>>

\* the new record put first
ListPrepend(list, item) == <<item>> \o list

\* list.append(item)
ListAppend(list, item) == Append(list, item)

\* a line is accepted: the date rolls over on a backward clock step and the
\* record is appended
AppendRecord ==
    /\ InLoop
    /\ line # <<>>
    /\ match.matched
    /\ NormalizeClock(match.clock).ok
    /\ Strptime(NormalizeClock(match.clock).value).ok
    /\ LET parsed     == Strptime(NormalizeClock(match.clock).value)
           clock_time == [hour |-> parsed.hour, minute |-> parsed.minute]
           date       == IF Rollover(previous_clock, clock_time)
                         THEN NextDay(current_date) ELSE current_date
       IN  /\ current_date' = date
           /\ records' = ListAppend(records,
                                    DispatchRecord(Combine(date, clock_time), match.company,
                                                   ToInt(match.percent)))
           /\ previous_clock' = [set |-> TRUE, hour |-> clock_time.hour,
                                 minute |-> clock_time.minute]
    /\ line_number' = line_number + 1
    /\ UNCHANGED <<lines, shift_date, max_per_table, pc, error, main_records, sheet, saved>>

\* `return records`, bound to main's `records`
ReturnRecords ==
    /\ pc = "parse"
    /\ line_number > Len(lines)
    /\ main_records' = [bound |-> TRUE, value |-> records]
    /\ pc' = "export"
    /\ UNCHANGED <<lines, shift_date, max_per_table, line_number, records, current_date,
                   previous_clock, error, sheet, saved>>

\* records[start : start + block_size]
Slice(list, start, stop) ==
    SubSeq(list, start + 1, IF stop < Len(list) THEN stop ELSE Len(list))

\* _record_blocks from `start` on; range(0, len(records), block_size) is
\* empty for a negative block_size
RECURSIVE BlocksFrom(_, _, _)
BlocksFrom(list, block_size, start) ==
    IF block_size > 0 /\ start < Len(list)
    THEN <<Slice(list, start, start + block_size)>> \o
         BlocksFrom(list, block_size, start + block_size)
    ELSE <<>>

\* only the full blocks: the shorter last block is lost
RecordBlocksFullOnly(list, block_size) ==
    IF block_size > 0
    THEN BlocksFrom(SubSeq(list, 1, Len(list) - (Len(list) % block_size)), block_size, 0)
    ELSE <<>>

\* _record_blocks(records, block_size), block_size # 0
RecordBlocks(list, block_size) == BlocksFrom(list, block_size, 0)

Headers == <<"Data/Hora (UTC)", "Empresa", "Excedido (%)">>

\* one table of the worksheet: block number block_index (from 0)
Table(block_index, block) ==
    LET start_column == block_index * (Len(Headers) + 1) + 1
    IN  [start_column  |-> start_column,
         headers       |-> Headers,
         rows          |-> [k \in 1..Len(block) |->
                               [row   |-> k + 1,
                                cells |-> <<AdjustedIso(block[k]), block[k].company,
                                            block[k].exceeded_percent>>]],
         spacer_column |-> start_column + Len(Headers)]

\* export_to_excel, then main's `return 0`
ExportToExcel ==
    /\ pc = "export"
    /\ max_per_table # 0
    /\ LET blocks == RecordBlocks(main_records.value, max_per_table)
       IN  sheet' = [k \in 1..Len(blocks) |-> Table(k - 1, blocks[k])]
    /\ saved' = TRUE
    /\ pc' = "done"
    /\ UNCHANGED <<lines, shift_date, max_per_table, line_number, records, current_date,
                   previous_clock, error, main_records>>

\* export_to_excel with max_per_table = 0: range() raises ValueError before
\* anything is written or saved
ExportRaises ==
    /\ pc = "export"
    /\ max_per_table = 0
    /\ error' = [type |-> "ValueError", origin |-> "_record_blocks",
                 reason |-> "range() arg 3 must not be zero", line_number |-> 0,
                 text |-> <<>>]
    /\ pc' = "failed"
    /\ UNCHANGED <<lines, shift_date, max_per_table, line_number, records, current_date,
                   previous_clock, main_records, sheet, saved>>

Next ==
    \/ SkipBlankLine
    \/ RaiseNoMatch
    \/ RaiseBadClock
    \/ AppendRecord
    \/ ReturnRecords
    \/ ExportToExcel
    \/ ExportRaises

Spec == Init /\ [][Next]_vars

---------------------------------------------------------------------------
(* What the properties are stated over: the description each input line    *)
(* was written from, read back from the text of the line.                  *)

\* every text of the pools with its description
TextDescPairs == {<<TextOf[d], d>> : d \in DOMAIN TextOf}

\* the description of every text of the pools
DescTable ==
    [text \in {p[1] : p \in TextDescPairs} |->
        (CHOOSE p \in TextDescPairs : p[1] = text)[2]]

\* the description of a line of the input
DescOf(text) == DescTable[text]

Descs == [k \in 1..Len(lines) |-> DescOf(lines[k])]

\* the number a string of digits spells, read from the left
RECURSIVE Horner(_, _)
Horner(acc, digits) ==
    IF digits = <<>> THEN acc ELSE Horner(10 * acc + DigitValue(Head(digits)), Tail(digits))

Number(digits) == Horner(0, digits)

BlankDesc(d) == d.kind = "raw" /\ \A k \in 1..Len(d.text) : d.text[k] \in SpaceChars

\* the line is in the format (every event of the pools is)
EventDesc(d) == d.kind = "event"

\* the clock names a minute of the day
ValidDesc(d) == EventDesc(d) /\ Number(d.hh) <= 23 /\ Number(d.mm) <= 59

NonBlankDesc(d) == ~BlankDesc(d)

ClockMinutes(d) == 60 * Number(d.hh) + Number(d.mm)

\* the events among the first n lines, in order
EventsUpTo(n) == SelectSeq(SubSeq(Descs, 1, n), EventDesc)

\* the lines parse_records has gone past
Consumed == line_number - 1

\* parse_records raised / returned
ParseFailed == pc = "failed" /\ error.origin # "_record_blocks"

ParseReturned == pc \in {"export", "done"} \/ error.origin = "_record_blocks"

RECURSIVE AddDays(_, _)
AddDays(dt, n) == IF n = 0 THEN dt ELSE NextDay(AddDays(dt, n - 1))

\* the strict backward clock steps among the first k accepted events
BackSteps(events, k) ==
    Cardinality({j \in 2..k : ClockMinutes(events[j]) < ClockMinutes(events[j - 1])})

\* one date is before the other
DateLess(a, b) ==
    \/ a.year < b.year
    \/ a.year = b.year /\ a.month < b.month
    \/ a.year = b.year /\ a.month = b.month /\ a.day < b.day

TsLess(a, b) ==
    \/ DateLess(a.date, b.date)
    \/ a.date = b.date /\ (a.hour < b.hour \/ (a.hour = b.hour /\ a.minute < b.minute))

---------------------------------------------------------------------------
(* C1: the date of every record is the shift date plus the number of       *)
(* strict backward clock steps between consecutive accepted events up to   *)
(* that record: the first record is dated shift_date, a clock strictly     *)
(* earlier than the previous accepted one adds one day, an equal or later  *)
(* clock adds none, and blank lines in between do not count.  An input     *)
(* whose clocks never step back yields only records dated shift_date.      *)
C1_RolloverDates ==
    LET events == EventsUpTo(Consumed)
    IN  /\ Len(records) = Len(events)
        /\ \A k \in 1..Len(records) :
              records[k].timestamp.date = AddDays(shift_date, BackSteps(events, k))
        /\ (\A j \in 2..Len(events) : ClockMinutes(events[j]) >= ClockMinutes(events[j - 1]))
              => \A k \in 1..Len(records) : records[k].timestamp.date = shift_date

\* a backward step, then a tie: the second record is a day later, the third stays
C1_Witness ==
    /\ pc = "done"
    /\ Len(records) = 3
    /\ ClockMinutes(Descs[2]) < ClockMinutes(Descs[1])
    /\ ClockMinutes(Descs[3]) = ClockMinutes(Descs[2])
    /\ records[1].timestamp.date = shift_date
    /\ records[2].timestamp.date = NextDay(shift_date)
    /\ records[3].timestamp.date = NextDay(shift_date)

(* C2: when every non-blank line is valid, parse_records returns one       *)
(* record per non-blank line, in input order, each with the company and    *)
(* the percentage of its own line; blank lines give no record and no       *)
(* error, and an input with no non-blank line gives the empty list.        *)
C2_OneRecordPerLine ==
    (\A k \in 1..Len(lines) : BlankDesc(Descs[k]) \/ ValidDesc(Descs[k]))
    => /\ ~ParseFailed
       /\ LET seen == SelectSeq(SubSeq(Descs, 1, Consumed), NonBlankDesc)
          IN  /\ Len(records) = Len(seen)
              /\ \A k \in 1..Len(seen) :
                    /\ records[k].company = seen[k].company
                    /\ records[k].exceeded_percent = Number(seen[k].pct)
       /\ ParseReturned =>
             /\ main_records.bound
             /\ main_records.value = records
             /\ Consumed = Len(lines)

\* two different events with a blank line between them, returned in order
C2_Witness ==
    /\ pc = "export"
    /\ Len(lines) = 3
    /\ BlankDesc(Descs[2])
    /\ Len(main_records.value) = 2
    /\ main_records.value[1].company # main_records.value[2].company
    /\ main_records.value[1].exceeded_percent # main_records.value[2].exceeded_percent

(* C3: all or nothing.  If a non-blank line fails to parse, the run ends   *)
(* with the error: export_to_excel is not invoked, nothing is written or   *)
(* saved, and no records reach main, not even those of the valid lines     *)
(* before the failing one.  Export happens only after every line parsed.   *)
C3_AllOrNothing ==
    /\ (\E k \in 1..Len(lines) : ~BlankDesc(Descs[k]) /\ ~ValidDesc(Descs[k]))
          => /\ pc \in {"parse", "failed"}
             /\ ~main_records.bound
             /\ sheet = <<>>
             /\ ~saved
    /\ ParseFailed => ~main_records.bound /\ sheet = <<>> /\ ~saved
    /\ (pc \in {"export", "done"} \/ saved \/ sheet # <<>>)
          => /\ Consumed = Len(lines)
             /\ \A k \in 1..Len(lines) : BlankDesc(Descs[k]) \/ ValidDesc(Descs[k])

\* the run failed on its third line with two records already built
C3_Witness ==
    /\ ParseFailed
    /\ line_number = 3
    /\ Len(records) = 2
    /\ ~main_records.bound
    /\ ~saved

(* C10: the timestamps of the records never decrease in output order, a    *)
(* record made right after a rollover (clock strictly earlier than its     *)
(* predecessor's) is strictly later than its predecessor, and the running  *)
(* date never decreases.                                                   *)
C10_TimestampsMonotone ==
    /\ \A k \in 1..(Len(records) - 1) :
          LET a == records[k].timestamp
              b == records[k + 1].timestamp
          IN  /\ ~TsLess(b, a)
              /\ ~DateLess(b.date, a.date)
              /\ (b.hour < a.hour \/ (b.hour = a.hour /\ b.minute < a.minute)) => TsLess(a, b)
    /\ ~DateLess(current_date, shift_date)
    /\ records # <<>> => current_date = records[Len(records)].timestamp.date

\* two rollovers in a row
C10_Witness ==
    /\ pc = "done"
    /\ Len(records) = 3
    /\ records[2].timestamp.hour < records[1].timestamp.hour
    /\ records[3].timestamp.hour < records[2].timestamp.hour
    /\ TsLess(records[1].timestamp, records[2].timestamp)
    /\ TsLess(records[2].timestamp, records[3].timestamp)
    /\ current_date = NextDay(NextDay(shift_date))

\* the lines outside the format, by number
Unmatched == {k \in 1..Len(lines) : ~BlankDesc(Descs[k]) /\ ~EventDesc(Descs[k])}

\* the lines in the format whose clock names no minute of the day
OutOfRange == {k \in 1..Len(lines) : EventDesc(Descs[k]) /\ ~ValidDesc(Descs[k])}

First(S) == CHOOSE k \in S : \A j \in S : k <= j

\* the run is over, one way or the other
Ended == pc \in {"done", "failed"}

(* C4 as stated: whenever the input holds a non-blank line outside the     *)
(* format, the run ends with a ParseError for the first such line,         *)
(* carrying its 1-based number and its raw text.                           *)
C4_AsStated ==
    (Ended /\ Unmatched # {})
    => /\ error.type = "ParseError"
       /\ error.line_number = First(Unmatched)
       /\ error.text = lines[First(Unmatched)]

(* C4, amended: when the first non-blank line that fails to parse is one   *)
(* outside the format, that is, no line before it is in the format with    *)
(* an hour above 23 or a minute above 59, parse_records raises ParseError  *)
(* for it with its 1-based number (blank lines counted) and its raw text,  *)
(* and no line after it is processed.  An earlier line in the format with  *)
(* such a clock ends the run first, with strptime's ValueError.            *)
C4_FirstUnmatchedLine ==
    (Ended /\ Unmatched # {})
    => LET n == First(Unmatched)
       IN  IF \A k \in OutOfRange : k > n
           THEN /\ pc = "failed"
                /\ error = [type |-> "ParseError", origin |-> "parse_records",
                            reason |-> "no match", line_number |-> n, text |-> lines[n]]
                /\ line_number = n
                /\ Len(records) = Len(EventsUpTo(n - 1))
                /\ ~main_records.bound
           ELSE /\ pc = "failed"
                /\ error.type = "ValueError"
                /\ error.origin = "strptime"
                /\ line_number = First(OutOfRange)

\* a blank line, a valid line, then a line outside the format: line 3 is named
C4_Witness ==
    /\ pc = "failed"
    /\ Len(lines) = 3
    /\ BlankDesc(Descs[1])
    /\ ValidDesc(Descs[2])
    /\ error.type = "ParseError"
    /\ error.line_number = 3
    /\ error.text = lines[3]
    /\ Len(records) = 1

(* C5 as stated: a line fails to parse in two ways only, both ParseError,  *)
(* and every line in the format is accepted whatever its hour and minute.  *)
C5_AsStated ==
    /\ ParseFailed => error.type = "ParseError"
    /\ \A k \in 1..Len(lines) : (ParseFailed /\ line_number = k) => ~EventDesc(Descs[k])

(* C5, amended: a line fails to parse in one of two ways that occur: a     *)
(* line outside the format raises ParseError, and a line in the format     *)
(* whose hour is above 23 or whose minute is above 59 (such as "25:00")    *)
(* is rejected by strptime with a plain ValueError; the ParseError for an  *)
(* invalid clock shape never occurs for a clock the format matched.  A     *)
(* line in the format is accepted exactly when its hour is at most 23 and  *)
(* its minute at most 59.                                                  *)
C5_ParseOutcomes ==
    /\ \A k \in 1..Consumed : BlankDesc(Descs[k]) \/ ValidDesc(Descs[k])
    /\ Len(records) = Len(SelectSeq(SubSeq(Descs, 1, Consumed), ValidDesc))
    /\ ParseFailed =>
          LET d == Descs[line_number]
          IN  \/ /\ ~BlankDesc(d) /\ ~EventDesc(d)
                 /\ error.type = "ParseError"
                 /\ error.reason = "no match"
              \/ /\ EventDesc(d) /\ ~ValidDesc(d)
                 /\ error.type = "ValueError"
                 /\ error.origin = "strptime"
                 /\ error.text = d.hh \o <<":">> \o d.mm
    /\ error.reason # "invalid clock"

\* the line "25:00 - ..." stopped the run with a ValueError
C5_Witness ==
    /\ pc = "failed"
    /\ error.type = "ValueError"
    /\ error.origin = "strptime"
    /\ error.text = <<"2", "5", ":", "0", "0">>
    /\ records = <<>>

\* the first cell of every row of the worksheet, table after table
RECURSIVE FirstCells(_)
FirstCells(tables) ==
    IF tables = <<>> THEN <<>>
    ELSE [k \in 1..Len(Head(tables).rows) |-> Head(tables).rows[k].cells[1]]
         \o FirstCells(Tail(tables))

(* C6: adjusted_iso is the timestamp plus exactly 3 hours at minute        *)
(* precision with a trailing "Z": same minute, hour (hour + 3) mod 24,     *)
(* the date one day later exactly when the hour is 21 or later, so that    *)
(* 2024-01-01T23:50 gives "2024-01-02T02:50Z"; the timestamp itself is     *)
(* left as it was.                                                         *)
C6_AdjustedIso ==
    /\ \A k \in 1..Len(records) :
          LET ts   == records[k].timestamp
              iso  == AdjustedIso(records[k])
              date == IF ts.hour >= 21 THEN NextDay(ts.date) ELSE ts.date
          IN  /\ Len(iso) = 17
              /\ Number(SubSeq(iso, 1, 4)) = date.year
              /\ iso[5] = "-"
              /\ Number(SubSeq(iso, 6, 7)) = date.month
              /\ iso[8] = "-"
              /\ Number(SubSeq(iso, 9, 10)) = date.day
              /\ iso[11] = "T"
              /\ Number(SubSeq(iso, 12, 13)) = (ts.hour + 3) % 24
              /\ iso[14] = ":"
              /\ Number(SubSeq(iso, 15, 16)) = ts.minute
              /\ iso[17] = "Z"
              /\ (ts = [date |-> MkDate(2024, 1, 1), hour |-> 23, minute |-> 50])
                    => iso = <<"2", "0", "2", "4", "-", "0", "1", "-", "0", "2", "T",
                               "0", "2", ":", "5", "0", "Z">>
    /\ pc = "done" =>
          /\ main_records.value = records
          /\ max_per_table > 0 =>
                FirstCells(sheet) = [k \in 1..Len(records) |-> AdjustedIso(records[k])]

\* the record of 2024-01-01T23:50 was exported as "2024-01-02T02:50Z"
C6_Witness ==
    /\ pc = "done"
    /\ Len(records) = 1
    /\ records[1].timestamp = [date |-> MkDate(2024, 1, 1), hour |-> 23, minute |-> 50]
    /\ sheet[1].rows[1].cells[1] = <<"2", "0", "2", "4", "-", "0", "1", "-", "0", "2", "T",
                                     "0", "2", ":", "5", "0", "Z">>

RECURSIVE Flatten(_)
Flatten(blocks) == IF blocks = <<>> THEN <<>> ELSE Head(blocks) \o Flatten(Tail(blocks))

\* the sizes of the blocks of 300 records cut at 256
BlockSizes300 ==
    LET blocks == RecordBlocks([k \in 1..300 |-> k], DefaultMaxPerTable)
    IN  [b \in 1..Len(blocks) |-> Len(blocks[b])]

(* C7: export cuts the records into consecutive blocks of up to            *)
(* max_per_table rows: for max_per_table >= 1 the blocks in order make up  *)
(* the original sequence, every block but the last has exactly             *)
(* max_per_table rows, the last has between 1 and max_per_table, and       *)
(* there are ceil(n / max_per_table) of them; 300 records at 256 give      *)
(* blocks of 256 and 44 rows, no record gives no block.                    *)
C7_Blocks ==
    /\ (pc = "done" /\ max_per_table >= 1) =>
          LET list   == main_records.value
              n      == Len(list)
              m      == max_per_table
              blocks == RecordBlocks(list, m)
          IN  /\ Flatten(blocks) = list
              /\ Len(blocks) = (n + m - 1) \div m
              /\ \A b \in 1..(Len(blocks) - 1) : Len(blocks[b]) = m
              /\ n > 0 => Len(blocks[Len(blocks)]) \in 1..m
              /\ n = 0 => blocks = <<>>
              /\ Len(sheet) = Len(blocks)
              /\ \A b \in 1..Len(sheet) :
                    /\ Len(sheet[b].rows) = Len(blocks[b])
                    /\ \A r \in 1..Len(blocks[b]) :
                          /\ sheet[b].rows[r].cells[2] = blocks[b][r].company
                          /\ sheet[b].rows[r].cells[3] = blocks[b][r].exceeded_percent
    /\ BlockSizes300 = <<256, 44>>

\* five records at two per table: tables of 2, 2 and 1 rows
C7_Witness ==
    /\ pc = "done"
    /\ max_per_table = 2
    /\ Len(main_records.value) = 5
    /\ Len(sheet) = 3
    /\ Len(sheet[1].rows) = 2
    /\ Len(sheet[2].rows) = 2
    /\ Len(sheet[3].rows) = 1

(* C8: for a two-digit hour HH and a two-digit minute MM, every clock      *)
(* spelling the format admits ("HH:MM", "HHhMM", "HHhMMh", "HH:MMh")       *)
(* normalizes to the same string "HH:MM" and so to the same clock time:    *)
(* the normalization of a matched clock depends only on its four digits.   *)
C8_ClockSpellings ==
    /\ \A k \in 1..Len(lines) :
          LET d == Descs[k]
          IN  EventDesc(d) =>
                 /\ MatchLog(Strip(lines[k])).clock = ClockText(d)
                 /\ NormalizeClock(ClockText(d)) = [ok |-> TRUE, value |-> d.hh \o <<":">> \o d.mm]
    /\ LET events == EventsUpTo(Consumed)
       IN  \A k \in 1..Len(records) :
              k <= Len(events) =>
                 /\ records[k].timestamp.hour = Number(events[k].hh)
                 /\ records[k].timestamp.minute = Number(events[k].mm)

\* a clock typed "08h50h" became the clock time 08:50
C8_Witness ==
    /\ pc = "done"
    /\ Len(lines) = 1
    /\ EventDesc(Descs[1])
    /\ ClockText(Descs[1]) = <<"0", "8", "h", "5", "0", "h">>
    /\ Len(records) = 1
    /\ records[1].timestamp.hour = 8
    /\ records[1].timestamp.minute = 50

\* what parsing makes of a line: (clockTime, company, percent)
TripleOf(record) ==
    [hour |-> record.timestamp.hour, minute |-> record.timestamp.minute,
     company |-> record.company, percent |-> record.exceeded_percent]

\* what a line in the format parses to
ParseLine(text) ==
    LET found == MatchLog(Strip(text))
        clock == Strptime(NormalizeClock(found.clock).value)
    IN  [hour |-> clock.hour, minute |-> clock.minute, company |-> found.company,
         percent |-> ToInt(found.percent)]

\* two lines that differ in the spelling of the clock separator at most
SameButSeparator(a, b) ==
    [a EXCEPT !.sep = ":", !.trail = FALSE] = [b EXCEPT !.sep = ":", !.trail = FALSE]

\* every line of the input was accepted: record k is the image of line k
AllAccepted == Len(records) = Len(lines)

(* C9 as stated: two valid lines that differ in anything other than the    *)
(* spelling of the clock separator parse to different triples.             *)
C9_AsStated ==
    AllAccepted =>
       \A i, j \in 1..Len(lines) :
          TripleOf(records[i]) = TripleOf(records[j]) => SameButSeparator(Descs[i], Descs[j])

\* every triple of the sample is what its canonical line parses to
CanonicalLinesParseBack ==
    \A h \in {0, 9, 23}, m \in {0, 59}, company \in {ABC, XYZ}, p \in {0, 7, 120} :
       ParseLine(Render(Event(Pad(h, 2), ":", Pad(m, 2), FALSE, "-", OneSpace, NoSpace,
                              company, Pad(p, 3))))
       = [hour |-> h, minute |-> m, company |-> company, percent |-> p]

(* C9, amended: parsing maps the valid lines onto the triples (clockTime,  *)
(* company, percent), and two valid lines parse to the same triple exactly *)
(* when they agree on the four clock digits, on the company and on the     *)
(* numeric value of the percentage; they may differ in the clock           *)
(* separator, in the kind of dash, in the optional whitespace and in       *)
(* leading zeros of the percentage.                                        *)
C9_SameTripleSameFields ==
    /\ AllAccepted =>
          \A i, j \in 1..Len(lines) :
             TripleOf(records[i]) = TripleOf(records[j])
             <=> /\ Descs[i].hh = Descs[j].hh
                 /\ Descs[i].mm = Descs[j].mm
                 /\ Descs[i].company = Descs[j].company
                 /\ Number(Descs[i].pct) = Number(Descs[j].pct)
    /\ AllAccepted =>
          \A k \in 1..Len(lines) : TripleOf(records[k]) = ParseLine(lines[k])
    /\ CanonicalLinesParseBack

\* "10:00-...-ABC-...:10%" and " 10h00h ENDASH ... ENDASH ABC ENDASH ... 010 %" gave the same triple
C9_Witness ==
    /\ pc = "done"
    /\ Len(lines) = 2
    /\ Len(records) = 2
    /\ TripleOf(records[1]) = TripleOf(records[2])
    /\ Descs[1].dash # Descs[2].dash
    /\ Descs[1].gap # Descs[2].gap
    /\ Descs[1].pct # Descs[2].pct
    /\ Descs[1].sep # Descs[2].sep

====
